---- MODULE Spec2Model ----
(***************************************************************************)
(* A model of the lklogger logging facade (package config, logging.go):    *)
(* the layered configuration resolution of loadConfig/Init, the pipelines  *)
(* built by newCoreFromConfig, and the leveled emit operations of          *)
(* LoggerBase with their mirroring into the process-wide logger `all`.     *)
(***************************************************************************)
EXTENDS Integers, Sequences, FiniteSets, TLC

VARIABLES
    currentConfig,  \* var currentConfig LogConfig
    all,            \* var all *zap.Logger: <<>> is nil, <<lg>> points to lg
    loggers,        \* the LoggerBase values handed out by NewServiceLogger
    files,          \* log file path -> the records written to it, in order
    console,        \* the records written to os.Stdout, in order
    proc,           \* "running", "exited" (os.Exit) or "panicked"
    clock,          \* number of sink writes performed so far
    nInit,          \* number of completed Init calls
    nEmit,          \* number of emit calls made; the next call's message id
    initArgs,       \* the inputs of the last Init call
    lastOp,         \* the last facade operation and what it did
    pc,             \* per goroutine: position inside a concurrent emit
    held,           \* per rotating sink: the goroutine holding its mutex
    job             \* per goroutine: the emit it is performing

vars == <<currentConfig, all, loggers, files, console, proc, clock, nInit,
          nEmit, initArgs, lastOp, pc, held, job>>

----------------------------------------------------------------------------
(* Bounds of the model.                                                    *)

MaxInits == 2
MaxLoggers == 1
MaxEmits == 1

----------------------------------------------------------------------------
(* zapcore levels.                                                         *)

DebugLevel == -1
InfoLevel == 0
WarnLevel == 1
ErrorLevel == 2
DPanicLevel == 3
FatalLevel == 5

(* strings.ToLower over the level strings the model feeds in.              *)
ToLower(s) ==
    CASE s = "WARN" -> "warn"
      [] s = "Error" -> "error"
      [] OTHER -> s

stringToZapLevel(s) ==
    CASE ToLower(s) = "debug" -> DebugLevel
      [] ToLower(s) = "info" -> InfoLevel
      [] ToLower(s) = "warn" -> WarnLevel
      [] ToLower(s) = "error" -> ErrorLevel
      [] OTHER -> InfoLevel

----------------------------------------------------------------------------
(* LogConfig and its resolution.                                           *)

Fields == {"Level", "Format", "OutputDir", "MaxSizeMB", "MaxBackupFiles",
           "MaxAgeDays", "Compress"}

(* The zero value of LogConfig: currentConfig before any Init.             *)
ZeroConfig ==
    [Level |-> "", Format |-> "", OutputDir |-> "", MaxSizeMB |-> 0,
     MaxBackupFiles |-> 0, MaxAgeDays |-> 0, Compress |-> FALSE]

(* v.SetDefault(...)                                                       *)
Defaults ==
    [Level |-> "info", Format |-> "text", OutputDir |-> "./log",
     MaxSizeMB |-> 10, MaxBackupFiles |-> 7, MaxAgeDays |-> 7,
     Compress |-> FALSE]

NoValues == [k \in {} |-> ""]

(* What ReadInConfig leaves in the viper instance: the keys of the file    *)
(* when it was read, nothing when it is missing or cannot be parsed.       *)
FileValues(source) == IF source.kind = "ok" THEN source.vals ELSE NoValues

(* One key as viper resolves it: environment, then file, then default.     *)
ViperGet(k, file, env) ==
    IF k \in DOMAIN env THEN env[k]
    ELSE IF k \in DOMAIN file THEN file[k]
    ELSE Defaults[k]

loadConfig(source, env) ==
    [k \in Fields |-> ViperGet(k, FileValues(source), env)]

(* Step 2 of Init: the override struct applied field by field.             *)
ApplyOverrideSymmetric(cfg, o) ==
    [Level |-> IF o.Level # "" THEN o.Level ELSE cfg.Level,
     Format |-> IF o.Format # "" THEN o.Format ELSE cfg.Format,
     OutputDir |-> IF o.OutputDir # "" THEN o.OutputDir ELSE cfg.OutputDir,
     MaxSizeMB |-> IF o.MaxSizeMB # 0 THEN o.MaxSizeMB ELSE cfg.MaxSizeMB,
     MaxBackupFiles |-> IF o.MaxBackupFiles # 0 THEN o.MaxBackupFiles
                        ELSE cfg.MaxBackupFiles,
     MaxAgeDays |-> IF o.MaxAgeDays # 0 THEN o.MaxAgeDays ELSE cfg.MaxAgeDays,
     Compress |-> o.Compress]

ApplyOverride(cfg, o) ==
    [Level |-> IF o.Level # "" THEN o.Level ELSE cfg.Level,
     Format |-> IF o.Format # "" THEN o.Format ELSE cfg.Format,
     OutputDir |-> IF o.OutputDir # "" THEN o.OutputDir ELSE cfg.OutputDir,
     MaxSizeMB |-> IF o.MaxSizeMB # 0 THEN o.MaxSizeMB ELSE cfg.MaxSizeMB,
     MaxBackupFiles |-> IF o.MaxBackupFiles # 0 THEN o.MaxBackupFiles
                        ELSE cfg.MaxBackupFiles,
     MaxAgeDays |-> IF o.MaxAgeDays # 0 THEN o.MaxAgeDays ELSE cfg.MaxAgeDays,
     Compress |-> IF ~o.Compress THEN o.Compress ELSE cfg.Compress]

(* The configuration Init stores: overrideCfg is <<>> for nil, <<o>> else. *)
ResolveConfig(source, env, overrideCfg) ==
    IF overrideCfg # <<>>
    THEN ApplyOverride(loadConfig(source, env), overrideCfg[1])
    ELSE loadConfig(source, env)

----------------------------------------------------------------------------
(* Pipelines: newCoreFromConfig and NewLoggerFromConfig.                    *)

ServiceNames == {"API", "All"}
Dirs == {"", "./log"}

(* filepath.Join(cfg.OutputDir, serviceName+".log")                        *)
LogPath(dir, serviceName) == <<dir, serviceName>>
Paths == {LogPath(d, n) : d \in Dirs, n \in ServiceNames}

getLumberjack(filePath, maxSize, maxBackups, maxAge, compress) ==
    [Filename |-> filePath, MaxSize |-> maxSize, MaxBackups |-> maxBackups,
     MaxAge |-> maxAge, Compress |-> compress]

(* A zapcore.Core over one sink: `out` is "console" (os.Stdout) or "file"  *)
(* (the lumberjack logger `lj`); `enab` is the level enabler.  The result  *)
(* is the sequence of cores of the Tee, a single file core for "All".      *)
newCoreFromConfigTeeAlways(cfg, serviceName) ==
    LET level == stringToZapLevel(cfg.Level)
        lj == getLumberjack(LogPath(cfg.OutputDir, serviceName), cfg.MaxSizeMB,
                            cfg.MaxBackupFiles, cfg.MaxAgeDays, cfg.Compress)
    IN  << [out |-> "console", lj |-> lj, enab |-> level],
           [out |-> "file", lj |-> lj, enab |-> level] >>

newCoreFromConfigConsoleOpen(cfg, serviceName) ==
    LET level == stringToZapLevel(cfg.Level)
        lj == getLumberjack(LogPath(cfg.OutputDir, serviceName), cfg.MaxSizeMB,
                            cfg.MaxBackupFiles, cfg.MaxAgeDays, cfg.Compress)
        fileCore == [out |-> "file", lj |-> lj, enab |-> level]
        consoleCore == [out |-> "console", lj |-> lj, enab |-> DebugLevel]
    IN  IF serviceName = "All" THEN <<fileCore>> ELSE <<consoleCore, fileCore>>

newCoreFromConfig(cfg, serviceName) ==
    LET level == stringToZapLevel(cfg.Level)
        lj == getLumberjack(LogPath(cfg.OutputDir, serviceName), cfg.MaxSizeMB,
                            cfg.MaxBackupFiles, cfg.MaxAgeDays, cfg.Compress)
        fileCore == [out |-> "file", lj |-> lj, enab |-> level]
        consoleCore == [out |-> "console", lj |-> lj, enab |-> level]
    IN  IF serviceName = "All" THEN <<fileCore>> ELSE <<consoleCore, fileCore>>

(* A *zap.Logger: its cores, the fields attached with zap.Fields, and `id`, *)
(* the identity of the allocated logger; `cfg` is the LogConfig it was     *)
(* built from.                                                             *)
NewLoggerFromConfig(cfg, serviceName, id) ==
    [cores |-> newCoreFromConfig(cfg, serviceName),
     ctx |-> IF serviceName = "All" THEN <<>>
             ELSE << <<"service_name", serviceName>> >>,
     cfg |-> cfg,
     id |-> id]

----------------------------------------------------------------------------
(* Writing one entry through a logger.                                     *)

World == [files |-> files, console |-> console, clock |-> clock]

(* ioCore.Check and ioCore.Write of one core: the entry is written iff the *)
(* core's level enabler admits its level.                                  *)
CoreWrite(w, core, ent) ==
    IF ent.lvl < core.enab THEN w
    ELSE LET rec == [ent EXCEPT !.at = w.clock + 1]
         IN  IF core.out = "console"
             THEN [w EXCEPT !.console = Append(@, rec), !.clock = @ + 1]
             ELSE [w EXCEPT !.files[core.lj.Filename] = Append(@, rec),
                            !.clock = @ + 1]

RECURSIVE WriteCores(_, _, _)
WriteCores(w, cores, ent) ==
    IF cores = <<>> THEN w
    ELSE WriteCores(CoreWrite(w, Head(cores), ent), Tail(cores), ent)

(* logger.Debug/Info/.../Fatal(msg, fields...): one entry, the logger's     *)
(* own fields first, then the call's.                                      *)
LoggerWrite(w, logger, lvl, msg, fields) ==
    WriteCores(w, logger.cores,
               [msg |-> msg, lvl |-> lvl, fields |-> logger.ctx \o fields,
                by |-> logger.id, at |-> 0])

(* ioCore.Write syncs its sink itself after writing an entry above         *)
(* ErrorLevel, since the process may be about to end.                      *)
SyncedByWrite(logger, lvl) ==
    /\ lvl > ErrorLevel
    /\ \A k \in 1..Len(logger.cores) : lvl >= logger.cores[k].enab

----------------------------------------------------------------------------
(* The inputs the operations are called with.                              *)

README_yaml ==
    [Level |-> "warn", Format |-> "text", OutputDir |-> "./log",
     MaxSizeMB |-> 10, MaxBackupFiles |-> 7, MaxAgeDays |-> 7,
     Compress |-> TRUE]

Sources ==
    { [kind |-> "missing", vals |-> NoValues],
      [kind |-> "malformed", vals |-> README_yaml],
      [kind |-> "ok", vals |-> README_yaml],
      [kind |-> "ok", vals |-> [Level |-> "WARN", MaxSizeMB |-> 20]] }

Envs ==
    { NoValues,
      [Level |-> "error"],
      [Compress |-> TRUE, MaxAgeDays |-> 3] }

Overrides ==
    { <<>>,
      <<ZeroConfig>>,
      <<[ZeroConfig EXCEPT !.Level = "info", !.Format = "json"]>>,
      <<[ZeroConfig EXCEPT !.Level = "debug", !.MaxSizeMB = 5,
                           !.Compress = TRUE]>>,
      <<[ZeroConfig EXCEPT !.Level = "verbose", !.Compress = TRUE]>> }

FacadeInits ==
    { [source |-> [kind |-> "missing", vals |-> NoValues], env |-> NoValues,
       overrideCfg |-> <<>>],
      [source |-> [kind |-> "ok", vals |-> README_yaml], env |-> NoValues,
       overrideCfg |-> <<>>],
      [source |-> [kind |-> "missing", vals |-> NoValues],
       env |-> [Level |-> "error"], overrideCfg |-> <<>>],
      [source |-> [kind |-> "missing", vals |-> NoValues], env |-> NoValues,
       overrideCfg |-> <<[ZeroConfig EXCEPT !.Level = "debug"]>>] }

CallerFields == { << <<"k", "v">> >> }

Goroutines == {"g1", "g2"}

NoOp ==
    [kind |-> "none", lg |-> 0, lvl |-> 0, msg |-> 0, fields |-> <<>>,
     ownSync |-> FALSE, allSync |-> FALSE]

NoJob == [lg |-> 0, msg |-> 0, part |-> 0, target |-> <<>>]

----------------------------------------------------------------------------
(* The state after package initialisation: no Init call has been made.     *)

Initial ==
    /\ currentConfig = ZeroConfig
    /\ all = <<>>
    /\ loggers = <<>>
    /\ files = [p \in Paths |-> <<>>]
    /\ console = <<>>
    /\ proc = "running"
    /\ clock = 0
    /\ nInit = 0
    /\ nEmit = 0
    /\ initArgs = [source |-> [kind |-> "missing", vals |-> NoValues],
                   env |-> NoValues, overrideCfg |-> <<>>]
    /\ lastOp = NoOp
    /\ pc = [g \in Goroutines |-> "idle"]
    /\ held = {}
    /\ job = [g \in Goroutines |-> NoJob]

----------------------------------------------------------------------------
(* Init(configPath, overrideCfg).  `source` is what configPath holds and   *)
(* `env` the LK_LOGGER_* environment variables that are set.               *)

NewAllKept(cfg, n) == all

NewAll(cfg, n) == <<NewLoggerFromConfig(cfg, "All", <<"all", n>>)>>

InitCall(source, env, overrideCfg) ==
    /\ proc = "running"
    /\ nInit < MaxInits
    /\ currentConfig' = ResolveConfig(source, env, overrideCfg)
    /\ all' = NewAll(currentConfig', nInit + 1)
    /\ nInit' = nInit + 1
    /\ initArgs' = [source |-> source, env |-> env,
                    overrideCfg |-> overrideCfg]
    /\ lastOp' = [NoOp EXCEPT !.kind = "Init"]
    /\ UNCHANGED <<loggers, files, console, proc, clock, nEmit, pc, held, job>>

(* Init with the inputs of the facade's runs: one per level threshold.     *)
Init == \E a \in FacadeInits : InitCall(a.source, a.env, a.overrideCfg)

(* Init over every combination of the configuration layers.                *)
InitAnyConfig ==
    \E source \in Sources, env \in Envs, overrideCfg \in Overrides :
        InitCall(source, env, overrideCfg)

(* NewServiceLogger(serviceName, writeToAll); `born` is the number of Init *)
(* calls completed when the logger was built.                              *)
NewServiceLogger ==
    \E serviceName \in ServiceNames, writeToAll \in BOOLEAN :
        /\ proc = "running"
        /\ Len(loggers) < MaxLoggers
        /\ loggers' = Append(loggers,
              [Logger |-> NewLoggerFromConfig(currentConfig, serviceName,
                                              <<"svc", Len(loggers) + 1>>),
               WriteToAll |-> writeToAll,
               ServiceName |-> serviceName,
               born |-> nInit])
        /\ lastOp' = [NoOp EXCEPT !.kind = "New", !.lg = Len(loggers) + 1]
        /\ UNCHANGED <<currentConfig, all, files, console, proc, clock, nInit,
                       nEmit, initArgs, pc, held, job>>

----------------------------------------------------------------------------
(* LoggerBase.Debug/Info/Warn/Error.  The four bodies differ in the level  *)
(* only.  With `all` nil, the call on all (all.Info, or the deferred       *)
(* all.Sync) dereferences a nil *zap.Logger and the goroutine panics; the  *)
(* deferred log.Logger.Sync still runs.                                    *)

MirrorFields(log, fields) ==
    << <<"service_name", log.ServiceName>> >> \o fields

MirrorFieldsOf(log) == MirrorFields(log, << <<"k", "v">> >>)

Emit(i, lvl, fields) ==
    LET log == loggers[i]
        msg == nEmit + 1
        w1 == LoggerWrite(World, log.Logger, lvl, msg, fields)
        w2 == IF log.WriteToAll /\ all # <<>>
              THEN LoggerWrite(w1, all[1], lvl, msg, MirrorFields(log, fields))
              ELSE w1
    IN  /\ proc = "running"
        /\ nEmit < MaxEmits
        /\ files' = w2.files
        /\ console' = w2.console
        /\ clock' = w2.clock
        /\ nEmit' = msg
        /\ proc' = IF all = <<>> THEN "panicked" ELSE "running"
        /\ lastOp' = [kind |-> "emit", lg |-> i, lvl |-> lvl, msg |-> msg,
                      fields |-> fields, ownSync |-> TRUE,
                      allSync |-> all # <<>>]
        /\ UNCHANGED <<currentConfig, all, loggers, nInit, initArgs, pc, held,
                       job>>

Debug == \E i \in 1..Len(loggers), fields \in CallerFields :
            Emit(i, DebugLevel, fields)

Info == \E i \in 1..Len(loggers), fields \in CallerFields :
            Emit(i, InfoLevel, fields)

Warn == \E i \in 1..Len(loggers), fields \in CallerFields :
            Emit(i, WarnLevel, fields)

Error == \E i \in 1..Len(loggers), fields \in CallerFields :
            Emit(i, ErrorLevel, fields)

(* LoggerBase.Fatal.  log.Logger.Fatal writes the entry and calls          *)
(* os.Exit(1): the process ends there and the two deferred Sync calls do   *)
(* not run.  With WriteToAll and `all` nil, all.DPanic panics before the   *)
(* logger's own write.                                                     *)
FatalFields(log, fields) ==
    << <<"service_name", log.ServiceName>>, <<"FATAL", "Exit">> >> \o fields

Fatal ==
    \E i \in 1..Len(loggers), fields \in CallerFields :
        LET log == loggers[i]
            msg == nEmit + 1
            nilAll == log.WriteToAll /\ all = <<>>
            w1 == IF log.WriteToAll /\ all # <<>>
                  THEN LoggerWrite(World, all[1], DPanicLevel, msg,
                                   FatalFields(log, fields))
                  ELSE World
            w2 == IF nilAll THEN w1
                  ELSE LoggerWrite(w1, log.Logger, FatalLevel, msg, fields)
        IN  /\ proc = "running"
            /\ nEmit < MaxEmits
            /\ files' = w2.files
            /\ console' = w2.console
            /\ clock' = w2.clock
            /\ nEmit' = msg
            /\ proc' = IF nilAll THEN "panicked" ELSE "exited"
            /\ lastOp' =
                  [kind |-> "Fatal", lg |-> i, lvl |-> FatalLevel, msg |-> msg,
                   fields |-> fields,
                   ownSync |-> IF nilAll THEN TRUE
                               ELSE SyncedByWrite(log.Logger, FatalLevel),
                   allSync |-> /\ log.WriteToAll
                               /\ all # <<>>
                               /\ SyncedByWrite(all[1], DPanicLevel)]
            /\ UNCHANGED <<currentConfig, all, loggers, nInit, initArgs, pc,
                           held, job>>

Next == Init \/ NewServiceLogger \/ Debug \/ Info \/ Warn \/ Error \/ Fatal

Spec == Initial /\ [][Next]_vars

(* Configuration resolution alone: Init under every layer combination.     *)
NextConfig == InitAnyConfig

SpecConfig == Initial /\ [][NextConfig]_vars

----------------------------------------------------------------------------
(* Concurrent callers of LoggerBase.Info.  Each goroutine performs one     *)
(* Info call, step by step.  A file core hands the encoded entry to its    *)
(* lumberjack.Logger, whose Write holds that logger's own mutex while the  *)
(* bytes go to the file at Filename; the bytes of one entry reach the file *)
(* in RecordParts pieces.  The console core writes to os.Stdout directly.  *)

RecordParts == 2

MsgOf(g) == IF g = "g1" THEN 1 ELSE 2

FileCoreOf(logger) == logger.cores[Len(logger.cores)]

HasConsole(logger) == \E k \in 1..Len(logger.cores) : logger.cores[k].out = "console"

Locked(sink) == \E g \in Goroutines : <<sink, g>> \in held

(* The goroutine enters log.Info(msg, fields...).                          *)
Begin(g) ==
    \E i \in 1..Len(loggers) :
        /\ proc = "running"
        /\ pc[g] = "idle"
        /\ job' = [job EXCEPT ![g] = [lg |-> i, msg |-> MsgOf(g), part |-> 0,
                                      target |-> <<loggers[i].Logger>>]]
        /\ pc' = [pc EXCEPT ![g] = "console"]
        /\ UNCHANGED <<currentConfig, all, loggers, files, console, proc,
                       clock, nInit, nEmit, initArgs, lastOp, held>>

Entry(g, fields) ==
    [msg |-> job[g].msg, lvl |-> InfoLevel,
     fields |-> job[g].target[1].ctx \o fields,
     by |-> job[g].target[1].id, at |-> clock + 1, part |-> job[g].part + 1]

CallFields(g) ==
    IF job[g].target[1].id[1] = "all"
    THEN MirrorFieldsOf(loggers[job[g].lg])
    ELSE << <<"k", "v">> >>

(* The console core of log.Logger's Tee.                                   *)
ConsoleWrite(g) ==
    /\ proc = "running"
    /\ pc[g] = "console"
    /\ LET logger == job[g].target[1]
       IN  IF HasConsole(logger) /\ InfoLevel >= logger.cores[1].enab
           THEN /\ console' = Append(console,
                                  [Entry(g, CallFields(g)) EXCEPT !.part = 0])
                /\ clock' = clock + 1
           ELSE UNCHANGED <<console, clock>>
    /\ pc' = [pc EXCEPT ![g] = "lock"]
    /\ UNCHANGED <<currentConfig, all, loggers, files, proc, nInit, nEmit,
                   initArgs, lastOp, held, job>>

(* The hand-over from one pipeline to the next: after log.Logger.Info the  *)
(* mirrored all.Info when WriteToAll, then the deferred Sync calls.  A nil *)
(* `all` panics.                                                           *)
AfterPipeline(g) ==
    LET log == loggers[job[g].lg]
        own == job[g].target[1].id[1] = "svc"
    IN  IF all = <<>> THEN [pcg |-> "done", tgt |-> job[g].target,
                            proc |-> "panicked"]
        ELSE IF own /\ log.WriteToAll
             THEN [pcg |-> "lock", tgt |-> all, proc |-> "running"]
             ELSE [pcg |-> "done", tgt |-> job[g].target, proc |-> "running"]

(* lumberjack.Logger.Write: l.mu.Lock() of the target's file core, or no   *)
(* write at all when the level enabler rejects the entry.                  *)
LockSink(g) ==
    /\ proc = "running"
    /\ pc[g] = "lock"
    /\ LET logger == job[g].target[1]
       IN  IF InfoLevel >= FileCoreOf(logger).enab
           THEN /\ ~Locked(logger.id)
                /\ held' = held \cup {<<logger.id, g>>}
                /\ pc' = [pc EXCEPT ![g] = "write"]
                /\ UNCHANGED <<job, proc>>
           ELSE /\ pc' = [pc EXCEPT ![g] = AfterPipeline(g).pcg]
                /\ job' = [job EXCEPT ![g].target = AfterPipeline(g).tgt]
                /\ proc' = AfterPipeline(g).proc
                /\ UNCHANGED held
    /\ UNCHANGED <<currentConfig, all, loggers, files, console, clock, nInit,
                   nEmit, initArgs, lastOp>>

(* l.file.Write(p): the next piece of the entry reaches the file.          *)
WritePart(g) ==
    /\ proc = "running"
    /\ pc[g] = "write"
    /\ LET logger == job[g].target[1]
       IN  /\ files' = [files EXCEPT ![FileCoreOf(logger).lj.Filename] =
                           Append(@, Entry(g, CallFields(g)))]
           /\ clock' = clock + 1
           /\ job' = [job EXCEPT ![g].part = @ + 1]
           /\ pc' = [pc EXCEPT ![g] = IF job[g].part + 1 = RecordParts
                                      THEN "unlock" ELSE "write"]
    /\ UNCHANGED <<currentConfig, all, loggers, console, proc, nInit, nEmit,
                   initArgs, lastOp, held>>

(* The deferred l.mu.Unlock() of lumberjack's Write.                       *)
UnlockSink(g) ==
    /\ proc = "running"
    /\ pc[g] = "unlock"
    /\ held' = held \ {<<job[g].target[1].id, g>>}
    /\ pc' = [pc EXCEPT ![g] = AfterPipeline(g).pcg]
    /\ job' = [job EXCEPT ![g].target = AfterPipeline(g).tgt, ![g].part = 0]
    /\ proc' = AfterPipeline(g).proc
    /\ UNCHANGED <<currentConfig, all, loggers, files, console, clock, nInit,
                   nEmit, initArgs, lastOp>>

NextConc ==
    \/ Init
    \/ NewServiceLogger
    \/ \E g \in Goroutines : Begin(g)
    \/ \E g \in Goroutines : ConsoleWrite(g)
    \/ \E g \in Goroutines : LockSink(g)
    \/ \E g \in Goroutines : WritePart(g)
    \/ \E g \in Goroutines : UnlockSink(g)

SpecConc == Initial /\ [][NextConc]_vars

----------------------------------------------------------------------------
(* Vocabulary of the properties.                                           *)

Sinks(logger) == {logger.cores[k].out : k \in 1..Len(logger.cores)}

(* The positions in a sink's content of the records of message m.          *)
Of(content, m) == {k \in 1..Len(content) : content[k].msg = m}

(* ... and of those written through the pipeline with identity id.         *)
Through(content, m, id) == {k \in Of(content, m) : content[k].by = id}

(* The aggregate stream: the file of the process-wide logger.              *)
AggregatePath == FileCoreOf(all[1]).lj.Filename
Aggregate == files[AggregatePath]

(* What one core's sink holds.                                             *)
ContentOf(core) ==
    IF core.out = "console" THEN console ELSE files[core.lj.Filename]

(* The order of the four level names, as the configuration spells them.    *)
Rank(name) ==
    CASE name = "debug" -> 1
      [] name = "info" -> 2
      [] name = "warn" -> 3
      [] name = "error" -> 4

LevelName(lvl) ==
    CASE lvl = DebugLevel -> "debug"
      [] lvl = InfoLevel -> "info"
      [] lvl = WarnLevel -> "warn"
      [] lvl = ErrorLevel -> "error"

Passes(lvl, logger) ==
    /\ logger.cfg.Level \in {"debug", "info", "warn", "error"}
    /\ Rank(LevelName(lvl)) >= Rank(logger.cfg.Level)

----------------------------------------------------------------------------
(* C1: after a Debug/Info/Warn/Error call on a ServiceLogger, with the     *)
(* aggregate logger built: if the logger mirrors and the record passes the *)
(* level threshold, the aggregate stream holds the record exactly once,    *)
(* with the service name as the first field, before the caller's fields;   *)
(* if the logger does not mirror, the aggregate stream holds no record of  *)
(* the call, whatever the service name.                                    *)
C1_MirrorExactlyOnce ==
    (lastOp.kind = "emit" /\ all # <<>>) =>
        LET log == loggers[lastOp.lg]
            inAgg == Of(Aggregate, lastOp.msg)
        IN  IF log.WriteToAll
            THEN (Passes(lastOp.lvl, log.Logger) /\ Passes(lastOp.lvl, all[1]))
                 => /\ Cardinality(inAgg) = 1
                    /\ \A k \in inAgg :
                          Aggregate[k].fields =
                              << <<"service_name", log.ServiceName>> >>
                                  \o lastOp.fields
            ELSE inAgg = {}

(* C2: a logger built by NewServiceLogger before any Init is not usable:   *)
(* no record of it ever reaches the console or a file.                     *)
C2_NoLoggerBeforeInit ==
    \A i \in 1..Len(loggers) :
        loggers[i].born = 0 =>
            /\ \A k \in 1..Len(console) : console[k].by # <<"svc", i>>
            /\ \A p \in Paths : \A k \in 1..Len(files[p]) :
                  files[p][k].by # <<"svc", i>>

(* C3: for a Debug/Info/Warn/Error call and a configured threshold among   *)
(* debug, info, warn, error: a record below the threshold reaches no sink  *)
(* of the pipeline it is written through, and a record at or above it      *)
(* reaches every sink of that pipeline, exactly once each.  The pipelines  *)
(* are the logger's own and, when it mirrors, the aggregate's.             *)
C3_Gated(logger, lvl, m) ==
    logger.cfg.Level \in {"debug", "info", "warn", "error"} =>
        IF Passes(lvl, logger)
        THEN \A k \in 1..Len(logger.cores) :
                Cardinality(Through(ContentOf(logger.cores[k]), m, logger.id)) = 1
        ELSE /\ Through(console, m, logger.id) = {}
             /\ \A p \in Paths : Through(files[p], m, logger.id) = {}

(* C3, for the last Debug/Info/Warn/Error call: gating as above on the    *)
(* logger's own pipeline and, when the call is mirrored, the aggregate's.  *)
C3_ThresholdGatesEverySink ==
    lastOp.kind = "emit" =>
        LET log == loggers[lastOp.lg]
        IN  /\ C3_Gated(log.Logger, lastOp.lvl, lastOp.msg)
            /\ (log.WriteToAll /\ all # <<>>)
                  => C3_Gated(all[1], lastOp.lvl, lastOp.msg)

(* A Warn record at threshold warn is on the console and in the file, and  *)
(* mirrored.                                                               *)
C3_Witness ==
    /\ lastOp.kind = "emit"
    /\ lastOp.lvl = WarnLevel
    /\ loggers[lastOp.lg].Logger.cfg.Level = "warn"
    /\ loggers[lastOp.lg].WriteToAll
    /\ Len(console) = 1
    /\ Of(Aggregate, lastOp.msg) # {}

(* C4: after a Fatal call, with the aggregate logger built: the process    *)
(* has terminated; if the logger mirrors, the aggregate stream holds a     *)
(* record of the call tagged with the service name and FATAL=Exit, written *)
(* before every fatal-level write of the call; if it does not mirror, the  *)
(* aggregate stream holds no record of the call.                           *)
C4_FatalTerminatesAndMirrors ==
    (lastOp.kind = "Fatal" /\ all # <<>>) =>
        LET log == loggers[lastOp.lg]
            inAgg == Of(Aggregate, lastOp.msg)
            own == LET c == FileCoreOf(log.Logger)
                   IN  {ContentOf(c)[k].at :
                           k \in {j \in Of(ContentOf(c), lastOp.msg) :
                                     ContentOf(c)[j].lvl = FatalLevel}}
        IN  /\ proc # "running"
            /\ own # {}
            /\ IF log.WriteToAll
               THEN \E k \in inAgg :
                       /\ Aggregate[k].fields =
                             << <<"service_name", log.ServiceName>>,
                                <<"FATAL", "Exit">> >> \o lastOp.fields
                       /\ \A t \in own : Aggregate[k].at < t
               ELSE inAgg = {}

(* C5: after a Debug/Info/Warn/Error/Fatal call, with the aggregate logger *)
(* built: both the logger's own pipeline and the aggregate pipeline were   *)
(* synced after the writes of the call.                                    *)
C5_BothPipelinesSynced ==
    (lastOp.kind \in {"emit", "Fatal"} /\ all # <<>>) =>
        lastOp.ownSync /\ lastOp.allSync

(* C6: in every file, the pieces of one record are adjacent: concurrent    *)
(* emits interleave at record boundaries only.                             *)
C6_RecordsNeverTorn ==
    \A p \in Paths : \A k \in 1..Len(files[p]) :
        LET r == files[p][k]
        IN  /\ r.part < RecordParts =>
                 (k < Len(files[p]) =>
                     /\ files[p][k + 1].part = r.part + 1
                     /\ files[p][k + 1].msg = r.msg
                     /\ files[p][k + 1].by = r.by)
            /\ r.part > 1 =>
                 /\ k > 1
                 /\ files[p][k - 1].part = r.part - 1
                 /\ files[p][k - 1].msg = r.msg
                 /\ files[p][k - 1].by = r.by

(* The value the layers supply for field f of the last Init call: the     *)
(* override when it is given and its field is not empty/zero, else the     *)
(* environment variable, else the configuration file, else the default.    *)
IsEmpty(f, v) ==
    CASE f \in {"Level", "Format", "OutputDir"} -> v = ""
      [] f \in {"MaxSizeMB", "MaxBackupFiles", "MaxAgeDays"} -> v = 0
      [] f = "Compress" -> v = FALSE

Layered(f) ==
    LET a == initArgs
    IN  IF f \in DOMAIN a.env THEN a.env[f]
        ELSE IF a.source.kind = "ok" /\ f \in DOMAIN a.source.vals
             THEN a.source.vals[f]
             ELSE Defaults[f]

Supplied(f) ==
    LET a == initArgs
    IN  IF a.overrideCfg # <<>> /\ ~IsEmpty(f, a.overrideCfg[1][f])
        THEN a.overrideCfg[1][f]
        ELSE Layered(f)

(* C7: after Init, every field of the effective configuration is the value *)
(* of the highest-precedence layer that supplies it, default < file <      *)
(* environment < override, an empty/zero override field supplying nothing. *)
(* An override with compress=true is left to C8 and not constrained here.  *)
C7_HighestLayerWins ==
    nInit > 0 =>
        \A f \in Fields :
            \/ currentConfig[f] = Supplied(f)
            \/ /\ f = "Compress"
               /\ initArgs.overrideCfg # <<>>
               /\ initArgs.overrideCfg[1].Compress

(* C8: after Init, the effective compress is the resolved value (file,     *)
(* environment, default) when there is no override or the override's       *)
(* compress is true, and false when the override's compress is false.      *)
C8_CompressOverrideOnlyWhenFalse ==
    nInit > 0 =>
        LET o == initArgs.overrideCfg
        IN  /\ o = <<>> => currentConfig.Compress = Layered("Compress")
            /\ (o # <<>> /\ o[1].Compress)
                  => currentConfig.Compress = Layered("Compress")
            /\ (o # <<>> /\ ~o[1].Compress) => currentConfig.Compress = FALSE

(* A resolved compress=false with an override compress=true stays false.   *)
C8_Witness ==
    /\ nInit > 0
    /\ initArgs.overrideCfg # <<>>
    /\ initArgs.overrideCfg[1].Compress
    /\ Layered("Compress") = FALSE
    /\ currentConfig.Compress = FALSE

(* C9: the aggregate logger is nil exactly until the first Init; once set  *)
(* it is never nil again; there is one instance at a time, the one the     *)
(* last Init built; and a mirroring logger's record of a call is written   *)
(* through that instance.                                                  *)
C9_State ==
    /\ nInit = 0 <=> all = <<>>
    /\ Len(all) <= 1
    /\ all # <<>> => all[1].id = <<"all", nInit>>
    /\ (lastOp.kind \in {"emit", "Fatal"} /\ all # <<>>
          /\ loggers[lastOp.lg].WriteToAll
          /\ IF lastOp.kind = "emit" THEN Passes(lastOp.lvl, all[1]) ELSE TRUE)
          => /\ Through(Aggregate, lastOp.msg, all[1].id) # {}
             /\ \A p \in Paths : \A k \in Of(files[p], lastOp.msg) :
                   files[p][k].by[1] = "all" => files[p][k].by = all[1].id

(* C9 as a property of behaviours: the state part always holds and no     *)
(* step takes the aggregate logger back to nil.                            *)
C9_AggregateReadyForever ==
    /\ []C9_State
    /\ [][all # <<>> => all' # <<>>]_vars

(* A logger built under the first Init mirrors through the instance of     *)
(* the second.                                                             *)
C9_Witness ==
    /\ nInit = 2
    /\ lastOp.kind = "emit"
    /\ loggers[lastOp.lg].born = 1
    /\ Through(Aggregate, lastOp.msg, <<"all", 2>>) # {}

(* C10: the pipeline of service name "All" has a file sink only, every     *)
(* other pipeline a console and a file sink; no record written through the *)
(* aggregate pipeline is on the console.                                   *)
C10_AggregateNeverOnConsole ==
    /\ \A i \in 1..Len(loggers) :
          Sinks(loggers[i].Logger) =
              IF loggers[i].ServiceName = "All" THEN {"file"}
              ELSE {"console", "file"}
    /\ all # <<>> => Sinks(all[1]) = {"file"}
    /\ \A k \in 1..Len(console) : console[k].by[1] # "all"

(* A mirrored record is in the aggregate file and the console holds the    *)
(* service's own copy only.                                                *)
C10_Witness ==
    /\ lastOp.kind = "emit"
    /\ all # <<>>
    /\ Through(Aggregate, lastOp.msg, all[1].id) # {}
    /\ Len(console) = 1

====
